---- MODULE Spec2Model ----
(***************************************************************************)
(* Contact manager (src/contact_manager.py): the Contact value type with   *)
(* its phone normalisation, and the ContactManager operations on the       *)
(* MySQL table `contacts`.                                                 *)
(*                                                                         *)
(* Python strings are modelled as sequences of one-character strings, so   *)
(* that stripping, slicing and formatting are computed and not assumed.    *)
(* Python's None is the value None below.  A character outside ASCII is    *)
(* written by its code point, as in "U+0667".                              *)
(*                                                                         *)
(* The SQL comparisons `col = %s` and the UNIQUE index are modelled as     *)
(* equality of the strings; the inputs of the model contain no two strings *)
(* that differ only by case or trailing blanks, so the collation of the    *)
(* server does not show.                                                   *)
(***************************************************************************)
EXTENDS Integers, Sequences, FiniteSets, TLC

(* ------------------------------ bounds --------------------------------- *)
\* longest raw phone string given to normalize_phone in SpecNorm
MaxLen == 12
\* the AUTO_INCREMENT counter is not advanced past this value
MaxId == 2
\* most records in the "contacts" list of an import file
MaxRecords == 2

(* ------------------------- program constants --------------------------- *)
NameWidth == 100
EmailWidth == 100
PhoneWidth == 20

(* ------------------------------ values --------------------------------- *)
\* Python's None: a one-element sequence that no string of characters equals
None == <<"None">>

\* the decimal digits outside ASCII (Unicode category Nd), ten per script,
\* from ARABIC-INDIC DIGIT ZERO on
NonAsciiDigits ==
    {
      "U+0660", "U+0661", "U+0662", "U+0663", "U+0664", "U+0665", "U+0666", "U+0667", "U+0668", "U+0669",
      "U+06F0", "U+06F1", "U+06F2", "U+06F3", "U+06F4", "U+06F5", "U+06F6", "U+06F7", "U+06F8", "U+06F9",
      "U+07C0", "U+07C1", "U+07C2", "U+07C3", "U+07C4", "U+07C5", "U+07C6", "U+07C7", "U+07C8", "U+07C9",
      "U+0966", "U+0967", "U+0968", "U+0969", "U+096A", "U+096B", "U+096C", "U+096D", "U+096E", "U+096F",
      "U+09E6", "U+09E7", "U+09E8", "U+09E9", "U+09EA", "U+09EB", "U+09EC", "U+09ED", "U+09EE", "U+09EF",
      "U+0A66", "U+0A67", "U+0A68", "U+0A69", "U+0A6A", "U+0A6B", "U+0A6C", "U+0A6D", "U+0A6E", "U+0A6F",
      "U+0AE6", "U+0AE7", "U+0AE8", "U+0AE9", "U+0AEA", "U+0AEB", "U+0AEC", "U+0AED", "U+0AEE", "U+0AEF",
      "U+0B66", "U+0B67", "U+0B68", "U+0B69", "U+0B6A", "U+0B6B", "U+0B6C", "U+0B6D", "U+0B6E", "U+0B6F",
      "U+0BE6", "U+0BE7", "U+0BE8", "U+0BE9", "U+0BEA", "U+0BEB", "U+0BEC", "U+0BED", "U+0BEE", "U+0BEF",
      "U+0C66", "U+0C67", "U+0C68", "U+0C69", "U+0C6A", "U+0C6B", "U+0C6C", "U+0C6D", "U+0C6E", "U+0C6F",
      "U+0CE6", "U+0CE7", "U+0CE8", "U+0CE9", "U+0CEA", "U+0CEB", "U+0CEC", "U+0CED", "U+0CEE", "U+0CEF",
      "U+0D66", "U+0D67", "U+0D68", "U+0D69", "U+0D6A", "U+0D6B", "U+0D6C", "U+0D6D", "U+0D6E", "U+0D6F",
      "U+0DE6", "U+0DE7", "U+0DE8", "U+0DE9", "U+0DEA", "U+0DEB", "U+0DEC", "U+0DED", "U+0DEE", "U+0DEF",
      "U+0E50", "U+0E51", "U+0E52", "U+0E53", "U+0E54", "U+0E55", "U+0E56", "U+0E57", "U+0E58", "U+0E59",
      "U+0ED0", "U+0ED1", "U+0ED2", "U+0ED3", "U+0ED4", "U+0ED5", "U+0ED6", "U+0ED7", "U+0ED8", "U+0ED9",
      "U+0F20", "U+0F21", "U+0F22", "U+0F23", "U+0F24", "U+0F25", "U+0F26", "U+0F27", "U+0F28", "U+0F29",
      "U+1040", "U+1041", "U+1042", "U+1043", "U+1044", "U+1045", "U+1046", "U+1047", "U+1048", "U+1049",
      "U+1090", "U+1091", "U+1092", "U+1093", "U+1094", "U+1095", "U+1096", "U+1097", "U+1098", "U+1099",
      "U+17E0", "U+17E1", "U+17E2", "U+17E3", "U+17E4", "U+17E5", "U+17E6", "U+17E7", "U+17E8", "U+17E9",
      "U+1810", "U+1811", "U+1812", "U+1813", "U+1814", "U+1815", "U+1816", "U+1817", "U+1818", "U+1819",
      "U+1946", "U+1947", "U+1948", "U+1949", "U+194A", "U+194B", "U+194C", "U+194D", "U+194E", "U+194F",
      "U+19D0", "U+19D1", "U+19D2", "U+19D3", "U+19D4", "U+19D5", "U+19D6", "U+19D7", "U+19D8", "U+19D9",
      "U+1A80", "U+1A81", "U+1A82", "U+1A83", "U+1A84", "U+1A85", "U+1A86", "U+1A87", "U+1A88", "U+1A89",
      "U+1A90", "U+1A91", "U+1A92", "U+1A93", "U+1A94", "U+1A95", "U+1A96", "U+1A97", "U+1A98", "U+1A99",
      "U+1B50", "U+1B51", "U+1B52", "U+1B53", "U+1B54", "U+1B55", "U+1B56", "U+1B57", "U+1B58", "U+1B59",
      "U+1BB0", "U+1BB1", "U+1BB2", "U+1BB3", "U+1BB4", "U+1BB5", "U+1BB6", "U+1BB7", "U+1BB8", "U+1BB9",
      "U+1C40", "U+1C41", "U+1C42", "U+1C43", "U+1C44", "U+1C45", "U+1C46", "U+1C47", "U+1C48", "U+1C49",
      "U+1C50", "U+1C51", "U+1C52", "U+1C53", "U+1C54", "U+1C55", "U+1C56", "U+1C57", "U+1C58", "U+1C59",
      "U+A620", "U+A621", "U+A622", "U+A623", "U+A624", "U+A625", "U+A626", "U+A627", "U+A628", "U+A629",
      "U+A8D0", "U+A8D1", "U+A8D2", "U+A8D3", "U+A8D4", "U+A8D5", "U+A8D6", "U+A8D7", "U+A8D8", "U+A8D9",
      "U+A900", "U+A901", "U+A902", "U+A903", "U+A904", "U+A905", "U+A906", "U+A907", "U+A908", "U+A909",
      "U+A9D0", "U+A9D1", "U+A9D2", "U+A9D3", "U+A9D4", "U+A9D5", "U+A9D6", "U+A9D7", "U+A9D8", "U+A9D9",
      "U+A9F0", "U+A9F1", "U+A9F2", "U+A9F3", "U+A9F4", "U+A9F5", "U+A9F6", "U+A9F7", "U+A9F8", "U+A9F9",
      "U+AA50", "U+AA51", "U+AA52", "U+AA53", "U+AA54", "U+AA55", "U+AA56", "U+AA57", "U+AA58", "U+AA59",
      "U+ABF0", "U+ABF1", "U+ABF2", "U+ABF3", "U+ABF4", "U+ABF5", "U+ABF6", "U+ABF7", "U+ABF8", "U+ABF9",
      "U+FF10", "U+FF11", "U+FF12", "U+FF13", "U+FF14", "U+FF15", "U+FF16", "U+FF17", "U+FF18", "U+FF19",
      "U+104A0", "U+104A1", "U+104A2", "U+104A3", "U+104A4", "U+104A5", "U+104A6", "U+104A7", "U+104A8", "U+104A9",
      "U+10D30", "U+10D31", "U+10D32", "U+10D33", "U+10D34", "U+10D35", "U+10D36", "U+10D37", "U+10D38", "U+10D39",
      "U+11066", "U+11067", "U+11068", "U+11069", "U+1106A", "U+1106B", "U+1106C", "U+1106D", "U+1106E", "U+1106F",
      "U+110F0", "U+110F1", "U+110F2", "U+110F3", "U+110F4", "U+110F5", "U+110F6", "U+110F7", "U+110F8", "U+110F9",
      "U+11136", "U+11137", "U+11138", "U+11139", "U+1113A", "U+1113B", "U+1113C", "U+1113D", "U+1113E", "U+1113F",
      "U+111D0", "U+111D1", "U+111D2", "U+111D3", "U+111D4", "U+111D5", "U+111D6", "U+111D7", "U+111D8", "U+111D9",
      "U+112F0", "U+112F1", "U+112F2", "U+112F3", "U+112F4", "U+112F5", "U+112F6", "U+112F7", "U+112F8", "U+112F9",
      "U+11450", "U+11451", "U+11452", "U+11453", "U+11454", "U+11455", "U+11456", "U+11457", "U+11458", "U+11459",
      "U+114D0", "U+114D1", "U+114D2", "U+114D3", "U+114D4", "U+114D5", "U+114D6", "U+114D7", "U+114D8", "U+114D9",
      "U+11650", "U+11651", "U+11652", "U+11653", "U+11654", "U+11655", "U+11656", "U+11657", "U+11658", "U+11659",
      "U+116C0", "U+116C1", "U+116C2", "U+116C3", "U+116C4", "U+116C5", "U+116C6", "U+116C7", "U+116C8", "U+116C9",
      "U+11730", "U+11731", "U+11732", "U+11733", "U+11734", "U+11735", "U+11736", "U+11737", "U+11738", "U+11739",
      "U+118E0", "U+118E1", "U+118E2", "U+118E3", "U+118E4", "U+118E5", "U+118E6", "U+118E7", "U+118E8", "U+118E9",
      "U+11950", "U+11951", "U+11952", "U+11953", "U+11954", "U+11955", "U+11956", "U+11957", "U+11958", "U+11959",
      "U+11C50", "U+11C51", "U+11C52", "U+11C53", "U+11C54", "U+11C55", "U+11C56", "U+11C57", "U+11C58", "U+11C59",
      "U+11D50", "U+11D51", "U+11D52", "U+11D53", "U+11D54", "U+11D55", "U+11D56", "U+11D57", "U+11D58", "U+11D59",
      "U+11DA0", "U+11DA1", "U+11DA2", "U+11DA3", "U+11DA4", "U+11DA5", "U+11DA6", "U+11DA7", "U+11DA8", "U+11DA9",
      "U+16A60", "U+16A61", "U+16A62", "U+16A63", "U+16A64", "U+16A65", "U+16A66", "U+16A67", "U+16A68", "U+16A69",
      "U+16AC0", "U+16AC1", "U+16AC2", "U+16AC3", "U+16AC4", "U+16AC5", "U+16AC6", "U+16AC7", "U+16AC8", "U+16AC9",
      "U+16B50", "U+16B51", "U+16B52", "U+16B53", "U+16B54", "U+16B55", "U+16B56", "U+16B57", "U+16B58", "U+16B59",
      "U+1D7CE", "U+1D7CF", "U+1D7D0", "U+1D7D1", "U+1D7D2", "U+1D7D3", "U+1D7D4", "U+1D7D5", "U+1D7D6", "U+1D7D7",
      "U+1D7D8", "U+1D7D9", "U+1D7DA", "U+1D7DB", "U+1D7DC", "U+1D7DD", "U+1D7DE", "U+1D7DF", "U+1D7E0", "U+1D7E1",
      "U+1D7E2", "U+1D7E3", "U+1D7E4", "U+1D7E5", "U+1D7E6", "U+1D7E7", "U+1D7E8", "U+1D7E9", "U+1D7EA", "U+1D7EB",
      "U+1D7EC", "U+1D7ED", "U+1D7EE", "U+1D7EF", "U+1D7F0", "U+1D7F1", "U+1D7F2", "U+1D7F3", "U+1D7F4", "U+1D7F5",
      "U+1D7F6", "U+1D7F7", "U+1D7F8", "U+1D7F9", "U+1D7FA", "U+1D7FB", "U+1D7FC", "U+1D7FD", "U+1D7FE", "U+1D7FF",
      "U+1E140", "U+1E141", "U+1E142", "U+1E143", "U+1E144", "U+1E145", "U+1E146", "U+1E147", "U+1E148", "U+1E149",
      "U+1E2F0", "U+1E2F1", "U+1E2F2", "U+1E2F3", "U+1E2F4", "U+1E2F5", "U+1E2F6", "U+1E2F7", "U+1E2F8", "U+1E2F9",
      "U+1E950", "U+1E951", "U+1E952", "U+1E953", "U+1E954", "U+1E955", "U+1E956", "U+1E957", "U+1E958", "U+1E959",
      "U+1FBF0", "U+1FBF1", "U+1FBF2", "U+1FBF3", "U+1FBF4", "U+1FBF5", "U+1FBF6", "U+1FBF7", "U+1FBF8", "U+1FBF9"
    }

\* the characters \d matches in a str pattern (no re.ASCII flag): every
\* Unicode decimal digit
Digits == {"0", "1", "2", "3", "4", "5", "6", "7", "8", "9"} \cup NonAsciiDigits

\* the alphabets of the raw phone strings explored in SpecNorm: the digit 1,
\* another digit (ASCII, or a decimal digit outside ASCII) and a non-digit
Chars == {{"1", "5", "-"}, {"1", "U+0667", "-"}, {"1", "U+FF11", "-"}}

Al == <<"A", "l">>
Bo == <<"B", "o">>
Names == {Al, Bo}

MailA == <<"a", "@", "x">>
MailB == <<"b", "@", "x">>
Emails == {MailA, MailB}

\* "(555) 123-4567": ten digits with punctuation
PhoneTen == <<"(", "5", "5", "5", ")", " ", "1", "2", "3", "-", "4", "5", "6", "7">>
\* "15559876543": eleven digits, leading 1
PhoneEleven == <<"1", "5", "5", "5", "9", "8", "7", "6", "5", "4", "3">>
\* "123": too short to normalise
PhoneShort == <<"1", "2", "3">>
\* "555-1234 ext 00112233": 15 digits, 21 characters
PhoneLong == <<"5", "5", "5", "-", "1", "2", "3", "4", " ", "e", "x", "t", " ",
               "0", "0", "1", "1", "2", "2", "3", "3">>
\* "+1-555-123-4567": the canonical form of PhoneTen
CanonTen == <<"+", "1", "-", "5", "5", "5", "-", "1", "2", "3", "-", "4", "5", "6", "7">>

\* the raw phone strings typed for add_contact and update_phone
PhoneInputs == {PhoneTen, PhoneShort, PhoneLong}

\* query fields tried by find/update/delete; "phone" is a column of the
\* table but not a valid query field
QueryTypes == {"name", "email", "phone"}
\* a stored name, a stored email and a value of the phone column; each is
\* also tried on the fields where no row has it
QueryValues == {Al, MailA, CanonTen}

(* ------------------------ Contact.normalize_phone ---------------------- *)
\* re.sub(r"\D", "", phone)
RECURSIVE re_sub_nondigits(_)
re_sub_nondigits(s) ==
    IF s = <<>> THEN <<>>
    ELSE IF Head(s) \in Digits
         THEN <<Head(s)>> \o re_sub_nondigits(Tail(s))
         ELSE re_sub_nondigits(Tail(s))

\* Python slice s[a:b] (0-based, b exclusive) for 0 <= a <= b
Slice(s, a, b) == SubSeq(s, a + 1, IF b < Len(s) THEN b ELSE Len(s))

normalize_phone_slip(phone) ==
    LET digits == re_sub_nondigits(phone) IN
    IF Len(digits) = 10
    THEN <<"+", "1", "-">> \o Slice(digits, 0, 3) \o <<"-">> \o Slice(digits, 3, 6)
            \o <<"-">> \o Slice(digits, 7, Len(digits))
    ELSE IF Len(digits) = 11 /\ digits[1] = "1"
    THEN <<"+", "1", "-">> \o Slice(digits, 1, 4) \o <<"-">> \o Slice(digits, 4, 7)
            \o <<"-">> \o Slice(digits, 7, Len(digits))
    ELSE phone

normalize_phone_any11(phone) ==
    LET digits == re_sub_nondigits(phone) IN
    IF Len(digits) = 10
    THEN <<"+", "1", "-">> \o Slice(digits, 0, 3) \o <<"-">> \o Slice(digits, 3, 6)
            \o <<"-">> \o Slice(digits, 6, Len(digits))
    ELSE IF Len(digits) = 11
    THEN <<"+", "1", "-">> \o Slice(digits, 1, 4) \o <<"-">> \o Slice(digits, 4, 7)
            \o <<"-">> \o Slice(digits, 7, Len(digits))
    ELSE phone

normalize_phone(phone) ==
    LET digits == re_sub_nondigits(phone) IN
    IF Len(digits) = 10
    THEN <<"+", "1", "-">> \o Slice(digits, 0, 3) \o <<"-">> \o Slice(digits, 3, 6)
            \o <<"-">> \o Slice(digits, 6, Len(digits))
    ELSE IF Len(digits) = 11 /\ digits[1] = "1"
    THEN <<"+", "1", "-">> \o Slice(digits, 1, 4) \o <<"-">> \o Slice(digits, 4, 7)
            \o <<"-">> \o Slice(digits, 7, Len(digits))
    ELSE phone

\* Contact.__init__; re.sub raises TypeError when phone is None
ContactRaises(phone) == phone = None
Contact(name, email, phone) ==
    [name |-> name, email |-> email, phone |-> normalize_phone(phone)]

(* ------------------------------- state --------------------------------- *)
VARIABLES
    table,       \* rows of `contacts` in id order: [id, name, email, phone]
    nextId,      \* next AUTO_INCREMENT value
    strictMode,  \* sql_mode of the server: TRUE rejects over-long values,
                 \* FALSE truncates them
    innoDB,      \* storage engine of the table (the server's default): TRUE
                 \* loses the AUTO_INCREMENT value of an INSERT the UNIQUE
                 \* index rejects, FALSE (MyISAM) keeps it
    call,        \* the last ContactManager call: [op, args]
    pre,         \* the table when that call started
    ret,         \* what the call returned: [kind, val]
    stmts,       \* number of SQL statements the call sent
    supplied,    \* row id -> raw phone string last supplied for the row
    phone_in,    \* SpecNorm: argument of normalize_phone
    phone_out,   \* SpecNorm: its result
    pcN          \* SpecNorm: "in" before the call, "out" after it

storeVars == <<table, nextId, strictMode, innoDB, call, pre, ret, stmts, supplied>>
normVars == <<phone_in, phone_out, pcN>>
vars == <<table, nextId, strictMode, innoDB, call, pre, ret, stmts, supplied,
          phone_in, phone_out, pcN>>

RetNone == [kind |-> "none", val |-> 0]
RetId(i) == [kind |-> "id", val |-> i]
RetBool(b) == [kind |-> "bool", val |-> b]
RetCount(n) == [kind |-> "count", val |-> n]
RetRow(r) == [kind |-> "row", val |-> r]

(* --------------------------- the storage layer ------------------------- *)
\* the value a VARCHAR(width) column keeps when the server truncates
Stored(v, width) == IF Len(v) > width THEN SubSeq(v, 1, width) ELSE v

\* a NOT NULL column given NULL (IntegrityError 1048)
NullViolation(c) == c.name = None \/ c.email = None \/ c.phone = None

\* a value longer than its column on a strict server (DataError 1406)
DataTooLong(c) ==
    strictMode /\ (Len(c.name) > NameWidth \/ Len(c.email) > EmailWidth
                      \/ Len(c.phone) > PhoneWidth)

\* the row INSERT INTO contacts (name, email, phone) writes
NewRow(nid, c) ==
    [id |-> nid, name |-> Stored(c.name, NameWidth),
     email |-> Stored(c.email, EmailWidth), phone |-> Stored(c.phone, PhoneWidth)]

\* email ... UNIQUE (IntegrityError 1062, "Duplicate entry")
DuplicateEntry(t, c) ==
    \E i \in 1..Len(t) : t[i].email = Stored(c.email, EmailWidth)

\* WHERE {query_type} = %s
Matches(row, query_type, query_value) == row[query_type] = query_value

MatchingRows(t, query_type, query_value) ==
    {i \in 1..Len(t) : Matches(t[i], query_type, query_value)}

\* the name, email, phone dictionary a SELECT returns for a row
Selected(row) == [name |-> row.name, email |-> row.email, phone |-> row.phone]

(* ----------------------- ContactManager.add_contact -------------------- *)
\* the AUTO_INCREMENT counter after an INSERT that took the value nid and
\* was then rejected by the UNIQUE index
AfterRejected(nid) == IF innoDB THEN nid + 1 ELSE nid

add_contact_no_unique(t, nid, c) ==
    IF NullViolation(c) \/ DataTooLong(c)
    THEN [table |-> t, nextId |-> nid, result |-> RetNone]
    ELSE [table |-> Append(t, NewRow(nid, c)), nextId |-> nid + 1,
          result |-> RetId(nid)]

add_contact_overwrite(t, nid, c) ==
    IF NullViolation(c) \/ DataTooLong(c)
    THEN [table |-> t, nextId |-> nid, result |-> RetNone]
    ELSE IF DuplicateEntry(t, c)
    THEN [table |-> [i \in 1..Len(t) |->
                        IF t[i].email = Stored(c.email, EmailWidth)
                        THEN [NewRow(nid, c) EXCEPT !.id = t[i].id]
                        ELSE t[i]],
          nextId |-> AfterRejected(nid), result |-> RetNone]
    ELSE [table |-> Append(t, NewRow(nid, c)), nextId |-> nid + 1,
          result |-> RetId(nid)]

\* returns the table, the AUTO_INCREMENT counter and cursor.lastrowid or None
add_contact(t, nid, c) ==
    IF NullViolation(c) \/ DataTooLong(c)
    THEN [table |-> t, nextId |-> nid, result |-> RetNone]
    ELSE IF DuplicateEntry(t, c)
    THEN [table |-> t, nextId |-> AfterRejected(nid), result |-> RetNone]
    ELSE [table |-> Append(t, NewRow(nid, c)), nextId |-> nid + 1,
          result |-> RetId(nid)]

(* ------------------ ContactManager.add_contacts_from_json -------------- *)
\* the records of the import files
RecordInputs ==
    { [name |-> Al,   email |-> MailA, phone |-> PhoneTen],
      [name |-> Bo,   email |-> MailB, phone |-> PhoneEleven],
      [name |-> None, email |-> MailA, phone |-> PhoneTen],
      [name |-> Bo,   email |-> None,  phone |-> PhoneTen],
      [name |-> Al,   email |-> MailA, phone |-> None] }

Min(a, b) == IF a < b THEN a ELSE b

\* the lists of at most k (and at most MaxRecords) records
RecordLists(k) == UNION {[1..n -> RecordInputs] : n \in 0..Min(k, MaxRecords)}

\* what open() and json.load() make of the file: no such file, not JSON,
\* a JSON array at top level, or an object whose "contacts" is a list
Files(k) ==
    {[kind |-> kd, contacts |-> <<>>] : kd \in {"missing", "invalid_json", "array"}}
    \cup {[kind |-> "object", contacts |-> l] : l \in RecordLists(k)}

\* the for loop: results holds add_contact's result per record handled;
\* raised is TRUE when Contact(...) raised and the loop was left
RECURSIVE import_loop(_, _, _, _, _)
import_loop(contacts, i, t, nid, results) ==
    IF i > Len(contacts)
    THEN [table |-> t, nextId |-> nid, results |-> results, raised |-> FALSE]
    ELSE IF ContactRaises(contacts[i].phone)
    THEN [table |-> t, nextId |-> nid, results |-> results, raised |-> TRUE]
    ELSE LET contact == Contact(contacts[i].name, contacts[i].email, contacts[i].phone)
             r == add_contact(t, nid, contact)
         IN  import_loop(contacts, i + 1, r.table, r.nextId,
                         Append(results, r.result))

\* successful_imports
Successful(results) == Cardinality({i \in 1..Len(results) : results[i].kind = "id"})

add_contacts_from_json(t, nid, file) ==
    IF file.kind # "object"
    THEN [table |-> t, nextId |-> nid, results |-> <<>>, count |-> 0]
    ELSE LET l == import_loop(file.contacts, 1, t, nid, <<>>)
         IN  [table |-> l.table, nextId |-> l.nextId, results |-> l.results,
              count |-> IF l.raised THEN 0 ELSE Successful(l.results)]

(* ----------------------- ContactManager.find_contact ------------------- *)
ValidQueryType(query_type) == query_type \in {"name", "email"}

\* the rows cursor.fetchone() may return; none when the field is invalid
find_contact(t, query_type, query_value) ==
    IF ~ValidQueryType(query_type) THEN {}
    ELSE {Selected(t[i]) : i \in MatchingRows(t, query_type, query_value)}

(* ----------------------- ContactManager.update_phone ------------------- *)
\* rows an UPDATE changes: MySQL counts a matching row as affected only when
\* its value changes (pymysql.connect is called without CLIENT.FOUND_ROWS)
Updated(t, query_type, query_value, phone) ==
    [i \in 1..Len(t) |->
        IF Matches(t[i], query_type, query_value)
        THEN [t[i] EXCEPT !.phone = Stored(phone, PhoneWidth)]
        ELSE t[i]]

AffectedRows(t, u) == Cardinality({i \in 1..Len(t) : t[i] # u[i]})

update_phone_always_true(t, query_type, query_value, new_phone) ==
    IF ~ValidQueryType(query_type)
    THEN [table |-> t, result |-> FALSE, stmts |-> 0]
    ELSE LET normalized_phone == normalize_phone(new_phone)
             u == Updated(t, query_type, query_value, normalized_phone)
         IN  IF strictMode /\ Len(normalized_phone) > PhoneWidth
                /\ MatchingRows(t, query_type, query_value) # {}
             THEN [table |-> t, result |-> FALSE, stmts |-> 1]
             ELSE [table |-> u, result |-> TRUE, stmts |-> 1]

update_phone(t, query_type, query_value, new_phone) ==
    IF ~ValidQueryType(query_type)
    THEN [table |-> t, result |-> FALSE, stmts |-> 0]
    ELSE LET normalized_phone == normalize_phone(new_phone)
             u == Updated(t, query_type, query_value, normalized_phone)
         IN  IF strictMode /\ Len(normalized_phone) > PhoneWidth
                /\ MatchingRows(t, query_type, query_value) # {}
             THEN [table |-> t, result |-> FALSE, stmts |-> 1]
             ELSE [table |-> u, result |-> AffectedRows(t, u) # 0, stmts |-> 1]

(* ----------------------- ContactManager.delete_contact ----------------- *)
Remaining(t, query_type, query_value) ==
    SelectSeq(t, LAMBDA row : ~Matches(row, query_type, query_value))

delete_contact_unchecked(t, query_type, query_value) ==
    LET u == Remaining(t, query_type, query_value)
    IN  [table |-> u, result |-> Len(t) - Len(u) # 0, stmts |-> 1]

delete_contact(t, query_type, query_value) ==
    IF ~ValidQueryType(query_type)
    THEN [table |-> t, result |-> FALSE, stmts |-> 0]
    ELSE LET u == Remaining(t, query_type, query_value)
         IN  [table |-> u, result |-> Len(t) - Len(u) # 0, stmts |-> 1]

(* ------------------------------ the calls ------------------------------ *)
NoCall == [op |-> "none", args |-> <<>>]

Ids(t) == {t[i].id : i \in 1..Len(t)}

Init ==
    /\ table = <<>>
    /\ nextId = 1
    /\ strictMode \in BOOLEAN
    /\ innoDB \in BOOLEAN
    /\ call = NoCall
    /\ pre = <<>>
    /\ ret = RetNone
    /\ stmts = 0
    /\ supplied = <<>>
    /\ phone_in = <<>>
    /\ phone_out = <<>>
    /\ pcN = "idle"

\* Contact(name, email, phone) followed by manager.add_contact(contact)
AddContact ==
    \E name \in Names, email \in Emails, phone \in PhoneInputs :
        LET r == add_contact(table, nextId, Contact(name, email, phone)) IN
        \* an insert that would take the AUTO_INCREMENT counter past MaxId
        \* is not explored
        /\ r.nextId <= MaxId + 1
        /\ call' = [op |-> "add_contact",
                    args |-> [name |-> name, email |-> email, phone |-> phone]]
        /\ pre' = table
        /\ table' = r.table
        /\ nextId' = r.nextId
        /\ ret' = r.result
        /\ stmts' = 1
        /\ supplied' = IF r.result.kind = "id"
                       THEN [i \in DOMAIN supplied \cup {r.result.val} |->
                                IF i = r.result.val THEN phone ELSE supplied[i]]
                       ELSE supplied
        /\ UNCHANGED <<strictMode, innoDB, phone_in, phone_out, pcN>>

\* manager.add_contacts_from_json(json_file)
AddContactsFromJson ==
    \* only files that cannot take the AUTO_INCREMENT counter past MaxId
    \E file \in Files(MaxId + 1 - nextId) :
        LET r == add_contacts_from_json(table, nextId, file) IN
        /\ call' = [op |-> "add_contacts_from_json", args |-> file]
        /\ pre' = table
        /\ table' = r.table
        /\ nextId' = r.nextId
        /\ ret' = RetCount(r.count)
        /\ stmts' = Len(r.results)
        /\ supplied' = [i \in Ids(r.table) |->
                          IF \E k \in 1..Len(r.results) :
                                r.results[k].kind = "id" /\ r.results[k].val = i
                          THEN file.contacts[CHOOSE k \in 1..Len(r.results) :
                                r.results[k].kind = "id" /\ r.results[k].val = i].phone
                          ELSE supplied[i]]
        /\ UNCHANGED <<strictMode, innoDB, phone_in, phone_out, pcN>>

\* manager.find_contact(query_type, query_value)
FindContact ==
    \E query_type \in QueryTypes, query_value \in QueryValues :
        LET found == find_contact(table, query_type, query_value) IN
        /\ call' = [op |-> "find_contact",
                    args |-> [query_type |-> query_type, query_value |-> query_value]]
        /\ pre' = table
        /\ \/ found = {} /\ ret' = RetNone
           \/ \E row \in found : ret' = RetRow(row)
        /\ stmts' = IF ValidQueryType(query_type) THEN 1 ELSE 0
        /\ UNCHANGED <<table, nextId, supplied, strictMode, innoDB, phone_in, phone_out, pcN>>

\* manager.update_phone(query_type, query_value, new_phone)
UpdatePhone ==
    \E query_type \in QueryTypes, query_value \in QueryValues, new_phone \in PhoneInputs :
        LET r == update_phone(table, query_type, query_value, new_phone) IN
        /\ call' = [op |-> "update_phone",
                    args |-> [query_type |-> query_type, query_value |-> query_value,
                              new_phone |-> new_phone]]
        /\ pre' = table
        /\ table' = r.table
        /\ ret' = RetBool(r.result)
        /\ stmts' = r.stmts
        /\ supplied' = IF r.stmts = 0 THEN supplied
                       ELSE [i \in DOMAIN supplied |->
                               IF \E k \in MatchingRows(table, query_type, query_value) :
                                     table[k].id = i
                               THEN new_phone ELSE supplied[i]]
        /\ UNCHANGED <<nextId, strictMode, innoDB, phone_in, phone_out, pcN>>

\* manager.delete_contact(query_type, query_value)
DeleteContact ==
    \E query_type \in QueryTypes, query_value \in QueryValues :
        LET r == delete_contact(table, query_type, query_value) IN
        /\ call' = [op |-> "delete_contact",
                    args |-> [query_type |-> query_type, query_value |-> query_value]]
        /\ pre' = table
        /\ table' = r.table
        /\ ret' = RetBool(r.result)
        /\ stmts' = r.stmts
        /\ supplied' = [i \in Ids(r.table) |-> supplied[i]]
        /\ UNCHANGED <<nextId, strictMode, innoDB, phone_in, phone_out, pcN>>

Next ==
    \/ AddContact
    \/ AddContactsFromJson
    \/ FindContact
    \/ UpdatePhone
    \/ DeleteContact

Spec == Init /\ [][Next]_vars

\* the shape of the state: ids ascend and stay below the counter, and every
\* row has a supplied raw phone
TypeOK ==
    /\ nextId \in 1..(MaxId + 1)
    /\ strictMode \in BOOLEAN
    /\ innoDB \in BOOLEAN
    /\ \A i \in 1..Len(table) : table[i].id \in 1..(nextId - 1)
    /\ \A i, j \in 1..Len(table) : i < j => table[i].id < table[j].id
    /\ DOMAIN supplied = Ids(table)
    /\ stmts \in 0..MaxRecords

(* -------------------- normalize_phone on its own ----------------------- *)
\* the raw phone strings of n characters over an alphabet
RawPhones(n, alphabet) == [1..n -> alphabet]

InitNorm ==
    /\ \E n \in 0..MaxLen, alphabet \in Chars : phone_in \in RawPhones(n, alphabet)
    /\ phone_out = <<>>
    /\ pcN = "in"
    /\ table = <<>>
    /\ nextId = 1
    /\ strictMode = TRUE
    /\ innoDB = TRUE
    /\ call = NoCall
    /\ pre = <<>>
    /\ ret = RetNone
    /\ stmts = 0
    /\ supplied = <<>>

\* Contact.normalize_phone(phone_in)
Normalize ==
    /\ pcN = "in"
    /\ phone_out' = normalize_phone(phone_in)
    /\ pcN' = "out"
    /\ UNCHANGED <<phone_in, table, nextId, strictMode, innoDB, call, pre, ret, stmts, supplied>>

\* the result is passed to normalize_phone again
Renormalize ==
    /\ pcN = "out"
    /\ phone_in' = phone_out
    /\ phone_out' = normalize_phone(phone_out)
    /\ pcN' = "again"
    /\ UNCHANGED <<table, nextId, strictMode, innoDB, call, pre, ret, stmts, supplied>>

NextNorm == Normalize \/ Renormalize

SpecNorm == InitNorm /\ [][NextNorm]_vars

(* ------------------------------ properties ----------------------------- *)
IsAddContact == call.op = "add_contact"
IsImport == call.op = "add_contacts_from_json"
IsFind == call.op = "find_contact"
IsUpdate == call.op = "update_phone"
IsDelete == call.op = "delete_contact"
IsQuery == IsFind \/ IsUpdate \/ IsDelete

\* the rows of t whose field holds the value
RowsWith(t, field, value) == {i \in 1..Len(t) : t[i][field] = value}

\* C1: add_contact with the email of a stored row returns None and leaves the
\* table as it was; the stored row keeps its name and phone and is what
\* find_contact('email', email) returns.
C1_DuplicateEmailRejected ==
    (IsAddContact /\ RowsWith(pre, "email", call.args.email) # {}) =>
        /\ ret.kind = "none"
        /\ table = pre
        /\ \A i \in RowsWith(pre, "email", call.args.email) :
              find_contact(table, "email", call.args.email)
                 = {[name |-> pre[i].name, email |-> pre[i].email,
                     phone |-> pre[i].phone]}

\* a second add with a stored email and another name and phone was tried
C1_Witness ==
    /\ IsAddContact
    /\ \E i \in RowsWith(pre, "email", call.args.email) :
          /\ pre[i].name # call.args.name
          /\ pre[i].phone # normalize_phone(call.args.phone)

\* C2: no two rows of the contacts table have the same email.
C2_EmailsUnique ==
    \A i, j \in 1..Len(table) : i # j => table[i].email # table[j].email

\* two rows are stored and an add of one of their emails has just been refused
C2_Witness ==
    /\ Len(table) = 2
    /\ IsAddContact
    /\ ret.kind = "none"
    /\ \E i \in 1..Len(table) : table[i].email = call.args.email

\* a record with its three fields present
WellFormed(rec) == rec.name # None /\ rec.email # None /\ rec.phone # None

\* C3: an import of a parsable file leaves every well-formed record whose
\* email was not yet stored in the table, wherever the malformed records are.
C3_MalformedRecordsSkipped ==
    (IsImport /\ call.args.kind = "object") =>
        \A k \in 1..Len(call.args.contacts) :
            (/\ WellFormed(call.args.contacts[k])
             /\ RowsWith(pre, "email", call.args.contacts[k].email) = {})
            => RowsWith(table, "email", call.args.contacts[k].email) # {}

\* C4: the number add_contacts_from_json returns is the number of rows the
\* call inserted.
C4_CountIsRowsInserted ==
    IsImport => ret.val = Len(table) - Len(pre)

\* C5: find_contact, update_phone and delete_contact with a field other than
\* 'name' or 'email' fail, send no statement and leave the table unchanged.
C5_InvalidFieldNoStorage ==
    (IsQuery /\ call.args.query_type \notin {"name", "email"}) =>
        /\ stmts = 0
        /\ table = pre
        /\ IsFind => ret.kind = "none"
        /\ (IsUpdate \/ IsDelete) => (ret.kind = "bool" /\ ret.val = FALSE)

\* delete_contact was called on the phone column with a stored phone
C5_Witness ==
    /\ IsDelete
    /\ call.args.query_type = "phone"
    /\ RowsWith(pre, "phone", call.args.query_value) # {}

\* C6: update_phone and delete_contact with a valid field and a value no row
\* has in that field return False and leave the table unchanged.
C6_ZeroMatchUnchanged ==
    (/\ IsUpdate \/ IsDelete
     /\ call.args.query_type \in {"name", "email"}
     /\ RowsWith(pre, call.args.query_type, call.args.query_value) = {})
    => (ret.kind = "bool" /\ ret.val = FALSE /\ table = pre)

\* update_phone found no row to update in a table that has rows
C6_Witness ==
    /\ IsUpdate
    /\ call.args.query_type \in {"name", "email"}
    /\ Len(pre) > 0
    /\ RowsWith(pre, call.args.query_type, call.args.query_value) = {}

\* C7: the phone of each stored row is normalize_phone of the raw phone
\* string most recently supplied for that row.
C7_PhoneIsNormalizedInput ==
    \A i \in 1..Len(table) :
        table[i].phone = normalize_phone(supplied[table[i].id])

\* the canonical form +1-AAA-BBB-CCCC
IsCanonical(s) ==
    /\ Len(s) = 15
    /\ s[1] = "+" /\ s[2] = "1" /\ s[3] = "-" /\ s[7] = "-" /\ s[11] = "-"
    /\ \A k \in {4, 5, 6, 8, 9, 10, 12, 13, 14, 15} : s[k] \in Digits

\* C8: normalize_phone is idempotent: normalising a result again returns it
\* unchanged, a string in canonical form included.
C8_Idempotent ==
    pcN = "again" => phone_out = phone_in

\* a canonical string was normalised again
C8_Witness ==
    pcN = "again" /\ IsCanonical(phone_in)

\* the digits of a string, in order
DigitsOf(s) == SelectSeq(s, LAMBDA ch : ch \in Digits)

\* C9: normalize_phone returns +1-d1d2d3-d4d5d6-d7d8d9d10 for exactly ten
\* digits, the same built from the last ten for eleven digits with a leading
\* 1, and the input unchanged in every other case.
C9_NormalizeResult ==
    (pcN \in {"out", "again"}) =>
        LET d == DigitsOf(phone_in) IN
        IF Len(d) = 10
        THEN phone_out = <<"+", "1", "-", d[1], d[2], d[3], "-", d[4], d[5], d[6],
                           "-", d[7], d[8], d[9], d[10]>>
        ELSE IF Len(d) = 11 /\ d[1] = "1"
        THEN phone_out = <<"+", "1", "-", d[2], d[3], d[4], "-", d[5], d[6], d[7],
                           "-", d[8], d[9], d[10], d[11]>>
        ELSE phone_out = phone_in

\* eleven digits with a leading 1 and a non-digit among them were normalised
C9_Witness ==
    /\ pcN = "out"
    /\ Len(DigitsOf(phone_in)) = 11
    /\ DigitsOf(phone_in)[1] = "1"
    /\ Len(phone_in) > 11

\* C10: with a valid field, update_phone and delete_contact return True
\* exactly when a stored row has the value in that field; update_phone sets
\* the phone of every such row to normalize_phone(new_phone) and delete_contact
\* removes every such row, and no other row changes.
C10_TrueIffMatchAndFrame ==
    ((IsUpdate \/ IsDelete) /\ call.args.query_type \in {"name", "email"}) =>
        LET hit == RowsWith(pre, call.args.query_type, call.args.query_value) IN
        /\ ret.val = (hit # {})
        /\ IsUpdate =>
              /\ Len(table) = Len(pre)
              /\ \A i \in 1..Len(pre) :
                    table[i] = IF i \in hit
                               THEN [pre[i] EXCEPT
                                       !.phone = normalize_phone(call.args.new_phone)]
                               ELSE pre[i]
        /\ IsDelete =>
              table = SelectSeq(pre, LAMBDA row :
                         row[call.args.query_type] # call.args.query_value)

====
